---- MODULE Spec2Model ----
(***************************************************************************)
(* State-machine model of the data-access layer of hpc-bottleneck-detector *)
(*   XBATDataSource  (data_sources/xbat_source.py)  - token management,    *)
(*                    measurement fetch, context enrichment                *)
(*   CSVDataSource   (data_sources/csv_source.py)   - file fetch           *)
(*   DataManager     (data/manager.py)              - construction,        *)
(*                    get_metric, get_metrics, list_available_metrics      *)
(*   JobContext      (data/job_context.py)          - from_xbat,           *)
(*                    get_benchmark                                        *)
(* Specifications: Spec (one XBATDataSource with default arguments),       *)
(* SpecArgs (any constructor arguments), SpecPair (two XBATDataSource      *)
(* instances over one token-cache path), SpecCsv, SpecDm, SpecJc.          *)
(* The remote server and the file system are the environment: every        *)
(* response is a nondeterministic choice among the outcomes an HTTP call   *)
(* or a JSON decode can have.                                              *)
(***************************************************************************)
EXTENDS Integers, Sequences, FiniteSets, TLC

VARIABLES
    pc,            \* position of the XBATDataSource caller: "new" (no instance),
                   \* "idle" (instance, no call running), a position inside a call,
                   \* "done" / "failed" (the call returned or raised; __init__ raised)
    caller,        \* who called _request_new_token: "__init__" or "fetch_job_data"
    access_token,  \* self._access_token
    token_file,    \* content of self.token_file on disk
    op,            \* the call in progress / last finished: name, argument, snapshots
    reqlog,        \* HTTP requests issued by session during the current call
    response,      \* local `response` of fetch_job_data (last measurement response)
    df,            \* local `df` of fetch_job_data
    jobs_left,     \* entries of the job listing the loop of _find_job_entry has not reached
    job_entry,     \* local `job_entry` of _fetch_job_context
    seen,          \* history: what the enrichment endpoints answered in this call
    result,        \* what the call returned or raised
    csv,           \* CSVDataSource: file table, argument and outcome of fetch_job_data
    config,        \* XBATDataSource: the keyword arguments group, metric, level, node
    dm,            \* DataManager: table, query and outcome of get_metric / get_metrics
    jc,            \* JobContext: node_hardware, query and outcome of get_benchmark
    pair           \* two XBATDataSource instances over one token-cache path

vars == <<pc, caller, access_token, token_file, op, reqlog, response, df,
          jobs_left, job_entry, seen, result, csv, config, dm, jc, pair>>

xbatVars == <<pc, caller, access_token, token_file, op, reqlog, response, df,
              jobs_left, job_entry, seen, result, config>>

----------------------------------------------------------------------------
(* Bounds of the model *)

MaxFileLines == 2      \* lines of the initial token-cache file
MaxRows == 2           \* rows of a CSV table (response body or local file)
MaxJobs == 2           \* entries in the job-listing "data" list

----------------------------------------------------------------------------
(* Python values *)

None == "<None>"

\* `not x` for a str-or-None value
Falsy(x) == x = None \/ x = ""

Tokens == {"tA", "tB"}

----------------------------------------------------------------------------
(* Token-cache file: absent, or a sequence of text lines "key=value" *)

RECURSIVE SeqsUpTo(_, _)
SeqsUpTo(S, n) ==
    IF n = 0 THEN {<<>>}
    ELSE LET shorter == SeqsUpTo(S, n - 1)
         IN  shorter \cup {Append(s, x) : s \in {t \in shorter : Len(t) = n - 1}, x \in S}

NoFile == [exists |-> FALSE, lines |-> <<>>]

\* Lines a cache file may start out with: a cached token, an empty value,
\* a line with another key.
FileLines ==
    {[key |-> "ACCESS_TOKEN", value |-> v] : v \in {"tA", ""}}
        \cup {[key |-> "OTHER", value |-> "x"]}

InitialFiles ==
    {NoFile} \cup {[exists |-> TRUE, lines |-> l] : l \in SeqsUpTo(FileLines, MaxFileLines)}

\* _load_token: value of the first line whose key is ACCESS_TOKEN; the token
\* is left as it was when the file is absent or has no such line.
RECURSIVE FirstAccessToken(_, _)
FirstAccessToken(lines, dflt) ==
    IF lines = <<>> THEN dflt
    ELSE IF Head(lines).key = "ACCESS_TOKEN" THEN Head(lines).value
    ELSE FirstAccessToken(Tail(lines), dflt)

LoadToken(file, current) ==
    IF ~file.exists THEN current ELSE FirstAccessToken(file.lines, current)

\* Variant: an existing file is left as it is, only a missing one is written
SaveTokenFileKeep(tok) ==
    IF token_file.exists THEN token_file
    ELSE [exists |-> TRUE, lines |-> <<[key |-> "ACCESS_TOKEN", value |-> tok]>>]

\* Variant: the file opened in append mode keeps its old lines
SaveTokenFileAppend(tok) ==
    [exists |-> TRUE,
     lines |-> Append(token_file.lines, [key |-> "ACCESS_TOKEN", value |-> tok])]

\* _save_token: open("w") truncates, one line is written
SaveTokenFile(tok) ==
    [exists |-> TRUE, lines |-> <<[key |-> "ACCESS_TOKEN", value |-> tok]>>]

----------------------------------------------------------------------------
(* HTTP *)

NetError == 0     \* no status: the request raised requests.RequestException

Statuses == {200, 401, 404, 500}

\* One request of the session: endpoint, bearer token sent, status received
\* and, for the token grant, the access_token of the payload.
Req(ep, tok, st) == [ep |-> ep, token |-> tok, status |-> st, reply |-> None]
Grant(st, reply) == [ep |-> "oauth_token", token |-> None, status |-> st, reply |-> reply]

Count(log, ep) == Cardinality({k \in 1..Len(log) : log[k].ep = ep})

NoResult == [kind |-> "none"]
Raised(exc) == [kind |-> "raised", exc |-> exc]
Instance == [kind |-> "instance"]

\* A URL of the measurements endpoint: its query string, the sequence of
\* <<key, value>> parameters.
NoUrl == <<>>

NoOp == [name |-> "none", job_id |-> None, file0 |-> NoFile, token0 |-> None, url |-> NoUrl]

----------------------------------------------------------------------------
(* CSV text and pandas.read_csv *)

\* Text of a jobId cell -> the integer pandas reads it as (as canonical decimal
\* text), or None when the cell is not numeric.
IntText(t) ==
    CASE t = "1"  -> "1"
      [] t = "01" -> "1"
      [] t = "2"  -> "2"
      [] OTHER    -> None

IntV(t) == [t |-> "int", v |-> t]
StrV(t) == [t |-> "str", v |-> t]
NoneV == [t |-> "none", v |-> None]

\* str(x) / Series.astype(str)
PyStr(x) == IF x.t = "none" THEN "None" ELSE x.v

\* One row of the wide table: identifying columns and the interval values.
Row(j, g, m, tr, vals) ==
    [jobId |-> j, group |-> g, metric |-> m, trace |-> tr, vals |-> vals]

\* pandas infers one dtype per column: a jobId column whose cells are all
\* numeric becomes int64, any other stays text.
ReadCsv(rows) ==
    LET numeric == \A k \in 1..Len(rows) : IntText(rows[k].jobId) # None
    IN  [k \in 1..Len(rows) |->
            [rows[k] EXCEPT !.jobId =
                IF numeric THEN IntV(IntText(rows[k].jobId)) ELSE StrV(rows[k].jobId)]]

\* A response body / file content: text the parser rejects, or a table in the
\* schema  jobId, group, metric, trace, interval 0 .. interval N  that the
\* service and the exported files follow (a table always has its jobId column).
Unparseable == [parses |-> FALSE, rows |-> <<>>]
Table(rows) == [parses |-> TRUE, rows |-> rows]

----------------------------------------------------------------------------
(* DataManager.__init__ *)

NoContext == [isNone |-> TRUE, job_id |-> None, nodes |-> {}, node_hardware |-> {}]

DataManagerJobId(job_data) ==
    IF job_data # <<>> THEN PyStr(job_data[1].jobId) ELSE None

DataManager(job_data, job_context) ==
    [kind |-> "DataManager", job_data |-> job_data, job_context |-> job_context,
     job_id |-> DataManagerJobId(job_data)]

----------------------------------------------------------------------------
(* XBATDataSource: token management *)

\* Variant: only an explicit 401 counts as rejected
TokenAcceptedUnless401(st) == st # 401

\* _validate_token, line 273: the server accepts the token iff HTTP 200;
\* a RequestException counts as rejected.
TokenAccepted(st) == st = 200

\* Variant: `if token is None`
TokenMissingNoneOnly(token) == token = None

\* _request_new_token, line 296: `if not token`
TokenMissing(token) == Falsy(token)

\* payload.get("access_token"): a token, the empty string, or None (missing)
GrantPayloads == Tokens \cup {"", None}
GrantResponses ==
    {[status |-> 200, access_token |-> t] : t \in GrantPayloads}
        \cup {[status |-> NetError, access_token |-> None]}

\* The keyword arguments group, metric, level, node of __init__ (lines 69-72)
Args(g, m, l, n) == [group |-> g, metric |-> m, level |-> l, node |-> n]

DefaultArgs == Args("", "", "job", "")

ArgSets ==
    {Args(g, m, l, n) : g \in {"", "cpu"}, m \in {"", "Branching"},
                        l \in {"job", "node"}, n \in {"", "n1"}}

\* Variant: only the group/metric combination is validated
ArgumentErrorGroupOnly(args) ==
    IF Falsy(args.group) /\ ~Falsy(args.metric) THEN "ValueError" ELSE None

\* __init__, lines 76-79: the argument combinations that are rejected
ArgumentError(args) ==
    IF Falsy(args.group) /\ ~Falsy(args.metric) THEN "ValueError"
    ELSE IF args.level = "node" /\ Falsy(args.node) THEN "ValueError"
    ELSE None

\* line 87: self.level = level or "job"
SelfLevel(args) == IF Falsy(args.level) THEN "job" ELSE args.level

\* _build_url, lines 308-326: every non-empty attribute becomes a parameter,
\* in the order group, metric, level, node
BuildUrl(args) ==
    (IF ~Falsy(args.group) THEN <<(<<"group", args.group>>)>> ELSE <<>>)
    \o (IF ~Falsy(args.metric) THEN <<(<<"metric", args.metric>>)>> ELSE <<>>)
    \o (IF ~Falsy(SelfLevel(args)) THEN <<(<<"level", SelfLevel(args)>>)>> ELSE <<>>)
    \o (IF ~Falsy(args.node) THEN <<(<<"node", args.node>>)>> ELSE <<>>)

\* __init__, lines 91-97 up to the first network call: load the cached token;
\* _validate_token answers False without a request when there is none.
Construct ==
    /\ pc = "new"
    /\ caller' = "__init__"
    /\ op' = [name |-> "__init__", job_id |-> None, file0 |-> token_file, token0 |-> None,
              url |-> NoUrl]
    /\ reqlog' = <<>>
    /\ IF ArgumentError(config) # None
       THEN /\ result' = Raised(ArgumentError(config))
            /\ pc' = "failed"
            /\ UNCHANGED access_token
       ELSE LET tok == LoadToken(token_file, None)
            IN  /\ access_token' = tok
                /\ pc' = IF Falsy(tok) THEN "request_new_token" ELSE "validate_token"
                /\ result' = NoResult
    /\ UNCHANGED <<token_file, response, df, jobs_left, job_entry, seen, csv, config, dm, jc, pair>>

\* _validate_token, lines 267-275: GET /api/v1/current_user
ValidateToken(st) ==
    /\ pc = "validate_token"
    /\ reqlog' = Append(reqlog, Req("current_user", access_token, st))
    /\ IF TokenAccepted(st)
       THEN pc' = "done" /\ result' = Instance
       ELSE pc' = "request_new_token" /\ result' = result
    /\ UNCHANGED <<caller, access_token, token_file, op, response, df, jobs_left, job_entry, seen, csv, config, dm, jc, pair>>

\* Variant: fetch_job_data goes on to its second request after the exception
AfterRaiseRetry == IF caller = "__init__" THEN "failed" ELSE "retry"

\* where control goes when _request_new_token raises
AfterRaise == IF caller = "__init__" THEN "failed" ELSE "done"

\* _request_new_token, lines 284-301: POST /oauth/token, read access_token
RequestNewToken(g) ==
    /\ pc = "request_new_token"
    /\ reqlog' = Append(reqlog, Grant(g.status, g.access_token))
    /\ IF g.status = NetError
       THEN /\ result' = Raised("RequestException")
            /\ pc' = AfterRaise
            /\ UNCHANGED access_token
       ELSE IF TokenMissing(g.access_token)
       THEN /\ result' = Raised("IOError")
            /\ pc' = AfterRaise
            /\ UNCHANGED access_token
       ELSE /\ access_token' = g.access_token
            /\ pc' = "save_token"
            /\ UNCHANGED result
    /\ UNCHANGED <<caller, token_file, op, response, df, jobs_left, job_entry, seen, csv, config, dm, jc, pair>>

\* _save_token, lines 251-256, then back to the caller of _request_new_token
SaveToken ==
    /\ pc = "save_token"
    /\ token_file' = SaveTokenFile(access_token)
    /\ IF caller = "__init__"
       THEN pc' = "done" /\ result' = Instance
       ELSE pc' = "retry" /\ result' = result
    /\ UNCHANGED <<caller, access_token, op, reqlog, response, df, jobs_left, job_entry, seen, csv, config, dm, jc, pair>>

----------------------------------------------------------------------------
(* XBATDataSource.fetch_job_data: the measurement request *)

JobIds == {"1", "2"}          \* the job_id argument (a str)

\* Bodies of a measurement response: rows of the requested or of another job.
XbatRows == {Row(j, "cpu", "Branching", "branch rate", <<1>>) : j \in JobIds}
XbatBodies == {Unparseable} \cup {Table(r) : r \in SeqsUpTo(XbatRows, MaxRows)}

MeasureResponses ==
    {[status |-> st, body |-> b] : st \in Statuses, b \in XbatBodies}
        \cup {[status |-> NetError, body |-> Unparseable]}

NoResponse == [status |-> NetError, body |-> Unparseable]
NoDf == <<>>

\* Variant: the refresh is tied to 403 instead of 401
NeedsRefresh403(status) == status = 403

\* line 130: the one status that triggers a token refresh
NeedsRefresh(status) == status = 401

\* Variant: only server errors are fatal, a 4xx other than 404 is parsed
StatusErrorServerOnly(status) ==
    IF status = 404 THEN "ValueError"
    ELSE IF status >= 500 THEN "IOError"
    ELSE None

\* Variant: no special case for 404
StatusErrorNo404(status) == IF status # 200 THEN "IOError" ELSE None

\* lines 141-149: the exception a final status maps to, None for 200
StatusError(status) ==
    IF status = 404 THEN "ValueError"
    ELSE IF status # 200 THEN "IOError"
    ELSE None

\* lines 141-154 on the final response: raise, or parse the body into df and
\* go on to _fetch_job_context
AfterResponse(resp) ==
    IF StatusError(resp.status) # None
    THEN /\ result' = Raised(StatusError(resp.status))
         /\ pc' = "done"
         /\ df' = NoDf
    ELSE IF ~resp.body.parses
    THEN /\ result' = Raised("IOError")
         /\ pc' = "done"
         /\ df' = NoDf
    ELSE /\ result' = NoResult
         /\ pc' = "find_job_entry"
         /\ df' = ReadCsv(resp.body.rows)

NoEntry == [isDict |-> FALSE, jobId |-> NoneV, nodesOk |-> FALSE, nodes |-> {}]
\* History of one enrichment: whether the listing showed an entry of the job
\* (and the hashes its nodes reference) or, before it, an entry of another
\* job; whether the hardware body decoded, and the hashes it described.
NothingSeen ==
    [match |-> FALSE, others |-> FALSE, hashes |-> {}, hw_valid |-> FALSE, hw_keys |-> {}]

\* lines 120-130: build the URL, first GET of the measurement endpoint
FetchJobData(job_id, resp) ==
    /\ pc = "idle"
    /\ op' = [name |-> "fetch_job_data", job_id |-> job_id, file0 |-> token_file,
              token0 |-> access_token, url |-> BuildUrl(config)]
    /\ reqlog' = <<Req("measurements", access_token, resp.status)>>
    /\ response' = resp
    /\ jobs_left' = 0
    /\ job_entry' = NoEntry
    /\ seen' = NothingSeen
    /\ IF resp.status = NetError
       THEN /\ result' = Raised("RequestException")
            /\ pc' = "done"
            /\ df' = NoDf
            /\ UNCHANGED caller
       ELSE IF NeedsRefresh(resp.status)
       THEN /\ pc' = "request_new_token"
            /\ caller' = "fetch_job_data"
            /\ result' = NoResult
            /\ df' = NoDf
       ELSE /\ AfterResponse(resp)
            /\ UNCHANGED caller
    /\ UNCHANGED <<access_token, token_file, csv, config, dm, jc, pair>>

\* lines 133-139: the GET re-issued after _request_new_token returned
RetryMeasure(resp) ==
    /\ pc = "retry"
    /\ reqlog' = Append(reqlog, Req("measurements", access_token, resp.status))
    /\ response' = resp
    /\ IF resp.status = NetError
       THEN /\ result' = Raised("RequestException")
            /\ pc' = "done"
            /\ df' = NoDf
       ELSE AfterResponse(resp)
    /\ UNCHANGED <<caller, access_token, token_file, op, jobs_left, job_entry, seen, csv, config, dm, jc, pair>>

----------------------------------------------------------------------------
(* JSON of the enrichment endpoints *)

\* Statuses of the enrichment endpoints: the code tells 200 from the rest
EnrichStatuses == {200, 500}

Hosts == {"n1", "n2"}
Hashes == {"h1", "h2"}

\* A Python dict as its set of <<key, value>> pairs
Keys(d) == {kv[1] : kv \in d}
Values(d) == {kv[2] : kv \in d}
Get(d, k) == (CHOOSE kv \in d : kv[1] = k)[2]

\* entry["nodes"]: hostname -> meta.get("hash"), None when the hash is missing
NodeMaps ==
    UNION {{{<<h, f[h]>> : h \in D} : f \in [D -> Hashes \cup {None}]} : D \in SUBSET Hosts}

\* One element of the "data" list: not a dict at all, or a dict with a jobId
\* (number, text or missing) and a "nodes" value that is a mapping of dicts
\* (nodesOk) or something else.
JobEntries ==
    {NoEntry}
        \cup {[isDict |-> TRUE, jobId |-> j, nodesOk |-> FALSE, nodes |-> {}] :
                j \in {IntV("1"), StrV("2"), NoneV}}
        \cup {[isDict |-> TRUE, jobId |-> j, nodesOk |-> TRUE, nodes |-> n] :
                j \in {IntV("1"), StrV("2"), NoneV}, n \in NodeMaps}

\* GET /api/v1/jobs: status, whether resp.json() is a dict, length of "data"
ListResponses ==
    {[status |-> st, valid |-> TRUE, n |-> n] : st \in EnrichStatuses, n \in 0..MaxJobs}
        \cup {[status |-> st, valid |-> FALSE, n |-> 0] : st \in EnrichStatuses \cup {NetError}}

\* A raw hardware descriptor: not a dict, or a dict with a "benchmarks"
\* section and sections the extraction does not keep.
RawDescriptors ==
    {[isDict |-> FALSE, benchmarks |-> None, extra |-> FALSE],
     [isDict |-> TRUE, benchmarks |-> "bw", extra |-> TRUE]}

RawHardware ==
    UNION {{{<<h, f[h]>> : h \in D} : f \in [D -> RawDescriptors]} : D \in SUBSET Hashes}

\* GET /api/v1/nodes: status, whether resp.json() decodes, the mapping
HwResponses ==
    {[status |-> st, valid |-> TRUE, raw |-> r] : st \in EnrichStatuses, r \in RawHardware}
        \cup {[status |-> st, valid |-> FALSE, raw |-> {}] : st \in EnrichStatuses \cup {NetError}}

----------------------------------------------------------------------------
(* JobContext.from_xbat *)

\* _extract_node_info: keep the known sections, drop the rest
ExtractNodeInfo(node_raw) == [benchmarks |-> node_raw.benchmarks]

\* Variant: node_hardware keeps one entry per host, under the hostname
FromXbatByHost(job_id, entry, node_hardware_raw) ==
    [isNone |-> FALSE,
     job_id |-> job_id,
     nodes |-> entry.nodes,
     node_hardware |->
        {<<kv[1], ExtractNodeInfo(Get(node_hardware_raw, kv[2]))>> :
            kv \in {x \in entry.nodes : ~Falsy(x[2]) /\ x[2] \in Keys(node_hardware_raw)}}]

\* lines 224-234: job_metadata["nodes"] is hostname -> hash; node_hardware
\* holds an entry per referenced hash that is truthy and present in the raw
\* mapping.
FromXbat(job_id, entry, node_hardware_raw) ==
    [isNone |-> FALSE,
     job_id |-> job_id,
     nodes |-> entry.nodes,
     node_hardware |->
        {<<h, ExtractNodeInfo(Get(node_hardware_raw, h))>> :
            h \in {x \in Values(entry.nodes) : ~Falsy(x) /\ x \in Keys(node_hardware_raw)}}]

\* from_xbat raises when a descriptor it extracts is not a dict
FromXbatRaises(entry, node_hardware_raw) ==
    \E h \in Values(entry.nodes) :
        /\ ~Falsy(h)
        /\ h \in Keys(node_hardware_raw)
        /\ ~Get(node_hardware_raw, h).isDict

----------------------------------------------------------------------------
(* XBATDataSource._fetch_job_context *)

\* line 157: wrap the table and the context, return
Return(ctx) ==
    /\ result' = DataManager(df, ctx)
    /\ pc' = "done"
    /\ df' = NoDf
    /\ jobs_left' = 0
    /\ job_entry' = NoEntry

\* Variant: `except requests.RequestException`
CaughtRequestOnly(exc) == exc = "RequestException"

\* line 196: `except Exception` catches every exception class raised inside
\* the try block
Caught(exc) == TRUE

\* An exception raised inside the try block of lines 180-197: swallowed, the
\* context is None
RaiseInContext(exc) ==
    IF Caught(exc)
    THEN Return(NoContext)
    ELSE /\ result' = Raised(exc)
         /\ pc' = "done"
         /\ df' = NoDf
         /\ jobs_left' = 0
         /\ job_entry' = NoEntry

\* Variant: only 404 makes the listing unusable
ListingOkUnless404(status) == status # 404

\* _find_job_entry, line 211
ListingOk(status) == status = 200

\* _find_job_entry, line 216
JobIdMatches(entry, job_id) == PyStr(entry.jobId) = job_id

\* Variant: every hash of the entry counts, None included
NodeHashesUnfiltered(entry) == Values(entry.nodes)

\* _fetch_job_context, lines 185-189
NodeHashes(entry) == {h \in Values(entry.nodes) : ~Falsy(h)}

\* _fetch_node_hardware, lines 232-234: {} unless HTTP 200
HardwareOf(r) == IF r.status # 200 THEN {} ELSE r.raw

\* _find_job_entry, lines 205-214: GET /api/v1/jobs?short=true
ListJobs(r) ==
    /\ pc = "find_job_entry"
    /\ reqlog' = Append(reqlog, Req("jobs", access_token, r.status))
    /\ IF r.status = NetError
       THEN RaiseInContext("RequestException")
       ELSE IF ~ListingOk(r.status)
       THEN Return(NoContext)
       ELSE IF ~r.valid
       THEN RaiseInContext("JSONDecodeError")
       ELSE /\ pc' = "scan_jobs"
            /\ jobs_left' = r.n
            /\ UNCHANGED <<result, df, job_entry>>
    /\ UNCHANGED <<caller, access_token, token_file, op, response, seen, csv, config, dm, jc, pair>>

\* _find_job_entry, lines 215-218, one iteration of the loop over "data" (the
\* entry it reaches is drawn now), then _fetch_job_context lines 182-191 on
\* the entry found.
ScanJobs(entry) ==
    /\ pc = "scan_jobs"
    /\ IF jobs_left = 0
       THEN /\ Return(NoContext)
            /\ UNCHANGED seen
       ELSE /\ seen' = IF ~entry.isDict \/ seen.match THEN seen
                       ELSE IF PyStr(entry.jobId) = op.job_id
                       THEN [seen EXCEPT !.match = TRUE,
                                         !.hashes = {h \in Values(entry.nodes) : ~Falsy(h)}]
                       ELSE [seen EXCEPT !.others = TRUE]
            /\ IF ~entry.isDict
               THEN RaiseInContext("AttributeError")
               ELSE IF ~JobIdMatches(entry, op.job_id)
               THEN /\ jobs_left' = jobs_left - 1
                    /\ UNCHANGED <<pc, result, df, job_entry>>
               ELSE IF ~entry.nodesOk
               THEN RaiseInContext("AttributeError")
               ELSE IF NodeHashes(entry) = {}
               THEN Return(NoContext)
               ELSE /\ pc' = "fetch_node_hardware"
                    /\ job_entry' = entry
                    /\ UNCHANGED <<result, df, jobs_left>>
    /\ UNCHANGED <<caller, access_token, token_file, op, reqlog, response, csv, config, dm, jc, pair>>

\* _fetch_node_hardware, lines 225-234, then lines 194-197 and 157
FetchNodeHardware(r) ==
    /\ pc = "fetch_node_hardware"
    /\ reqlog' = Append(reqlog, Req("nodes", access_token, r.status))
    /\ seen' = [seen EXCEPT !.hw_valid = r.valid, !.hw_keys = Keys(r.raw)]
    /\ IF r.status = NetError
       THEN RaiseInContext("RequestException")
       ELSE IF r.status = 200 /\ ~r.valid
       THEN RaiseInContext("JSONDecodeError")
       ELSE IF FromXbatRaises(job_entry, HardwareOf(r))
       THEN RaiseInContext("TypeError")
       ELSE Return(FromXbat(op.job_id, job_entry, HardwareOf(r)))
    /\ UNCHANGED <<caller, access_token, token_file, op, response, csv, config, dm, jc, pair>>

----------------------------------------------------------------------------
(* CSVDataSource.fetch_job_data *)

CsvIdTexts == {"1", "01", "a", "A"}
CsvArgs == {"1", "01", "a", "A", "2"}

CsvRows == {Row(j, "cpu", "Branching", tr, <<1>>) : j \in CsvIdTexts, tr \in {"t1", "t2"}}
CsvFiles == {Unparseable} \cup {Table(r) : r \in SeqsUpTo(CsvRows, MaxRows)}

\* str.lower() on the identifiers of the model
Lower(s) == IF s = "A" THEN "a" ELSE s

\* Variant: the comparison folds letter case
FilterJobFold(frame, job_id) ==
    LET keep(r) == Lower(PyStr(r.jobId)) = Lower(job_id)
    IN  SelectSeq(frame, keep)

\* line 74: rows whose jobId, as a string, equals str(job_id), in file order
FilterJob(frame, job_id) ==
    LET keep(r) == PyStr(r.jobId) = job_id
    IN  SelectSeq(frame, keep)

\* lines 69-80, the body of the try block: what it returns or raises
CsvTry(file, job_id) ==
    IF ~file.parses THEN Raised("ParserError")
    ELSE LET job_data == FilterJob(ReadCsv(file.rows), job_id)
         IN  IF job_data = <<>> THEN Raised("ValueError")
             ELSE DataManager(job_data, NoContext)

\* lines 82-85: the except clauses; the second catches every Exception
\* raised in the try block, the ValueError of line 77 included
CsvExcept(exc) ==
    IF exc = "ParserError" THEN "IOError"
    ELSE "IOError"

CsvFetch(file, job_id) ==
    LET r == CsvTry(file, job_id)
    IN  IF r.kind = "raised" THEN Raised(CsvExcept(r.exc)) ELSE r

NoCsv == [file |-> Unparseable, job_id |-> None, result |-> NoResult]

\* CSVDataSource.fetch_job_data(job_id) on the file
CsvFetchJobData ==
    /\ csv.result = NoResult
    /\ csv.job_id # None
    /\ csv' = [csv EXCEPT !.result = CsvFetch(csv.file, csv.job_id)]
    /\ UNCHANGED <<xbatVars, dm, jc, pair>>

----------------------------------------------------------------------------
(* DataManager queries *)

MaxSpecs == 2          \* entries of the metric_specs list of get_metrics

\* Names are sequences of characters here, so that the key of get_metrics can
\* be built from them.
DmGroups == {<<"c">>}
DmMetrics == {<<"b">>, <<"m">>}
DmTraces == {<<"x", " ", "y">>, <<"x", "_", "y">>}

DmRows == {Row("1", g, m, tr, <<v>>) : g \in DmGroups, m \in DmMetrics, tr \in DmTraces, v \in {1, 2}}
DmTables == SeqsUpTo(DmRows, MaxRows)

\* An optional argument: <<>> for None / key absent, <<t>> for the value t
Absent == <<>>
Given(t) == <<t>>

\* One entry of metric_specs: {'group': g, 'metric': m[, 'trace': t]}
MetricSpec(g, m, t) == [group |-> g, metric |-> m, trace |-> t]
MetricSpecs ==
    {MetricSpec(g, m, t) : g \in DmGroups, m \in DmMetrics,
                           t \in {Absent} \cup {Given(tr) : tr \in DmTraces}}

Series(vals) == [kind |-> "Series", vals |-> vals]

\* Variant: the last matching row is returned
GetMetricLast(table, group, metric, trace) ==
    LET condition(r) == /\ r.group = group
                        /\ r.metric = metric
                        /\ trace # Absent => r.trace = trace[1]
        metric_data == SelectSeq(table, condition)
    IN  IF metric_data = <<>> THEN Raised("ValueError")
        ELSE Series(metric_data[Len(metric_data)].vals)

\* get_metric, lines 60-76
GetMetric(table, group, metric, trace) ==
    LET condition(r) == /\ r.group = group
                        /\ r.metric = metric
                        /\ trace # Absent => r.trace = trace[1]
        metric_data == SelectSeq(table, condition)
    IN  IF metric_data = <<>> THEN Raised("ValueError")
        ELSE Series(metric_data[1].vals)

\* trace.replace(' ', '_')
ReplaceSpaces(t) == [k \in 1..Len(t) |-> IF t[k] = " " THEN "_" ELSE t[k]]

\* lines 100-102: the descriptive key
MetricKey(group, metric, trace) ==
    group \o <<"_">> \o metric
        \o (IF trace # Absent /\ trace[1] # <<>> THEN <<"_">> \o ReplaceSpaces(trace[1]) ELSE <<>>)

\* result[key] = series on a dict, kept as the sequence of its items
RECURSIVE DictSet(_, _, _)
DictSet(d, key, value) ==
    IF d = <<>> THEN <<(<<key, value>>)>>
    ELSE IF Head(d)[1] = key THEN <<(<<key, value>>)>> \o Tail(d)
    ELSE <<Head(d)>> \o DictSet(Tail(d), key, value)

\* lines 89-107: the loop over metric_specs; acc is the dict `result`
RECURSIVE GetMetricsLoop(_, _, _)
GetMetricsLoop(table, specs, acc) ==
    IF specs = <<>> THEN acc
    ELSE LET spec == Head(specs)
             series == GetMetric(table, spec.group, spec.metric, spec.trace)
         IN  IF series.kind = "raised"
             THEN GetMetricsLoop(table, Tail(specs), acc)
             ELSE GetMetricsLoop(table, Tail(specs),
                      DictSet(acc, MetricKey(spec.group, spec.metric, spec.trace),
                              series.vals))

\* get_metrics, lines 78-109: one row per item of the dict
GetMetrics(table, specs) ==
    [kind |-> "DataFrame", rows |-> GetMetricsLoop(table, specs, <<>>)]

\* list_available_metrics, line 118: the distinct (group, metric, trace)
\* triples, each at its first occurrence
RECURSIVE ListAvailableMetrics(_)
ListAvailableMetrics(table) ==
    IF table = <<>> THEN <<>>
    ELSE LET before == ListAvailableMetrics(SubSeq(table, 1, Len(table) - 1))
             r == table[Len(table)]
             triple == <<r.group, r.metric, r.trace>>
         IN  IF \E k \in 1..Len(before) : before[k] = triple THEN before
             ELSE Append(before, triple)

NoDm == [table |-> <<>>, specs |-> <<>>, call |-> "none", result |-> NoResult]

\* dm.get_metric(**metric_specs[0])
DmGetMetric ==
    /\ dm.call = "none"
    /\ dm.specs # <<>>
    /\ dm' = [dm EXCEPT !.call = "get_metric",
                        !.result = GetMetric(dm.table, dm.specs[1].group,
                                             dm.specs[1].metric, dm.specs[1].trace)]
    /\ UNCHANGED <<xbatVars, csv, jc, pair>>

\* dm.get_metrics(metric_specs)
DmGetMetrics ==
    /\ dm.call = "none"
    /\ dm' = [dm EXCEPT !.call = "get_metrics", !.result = GetMetrics(dm.table, dm.specs)]
    /\ UNCHANGED <<xbatVars, csv, jc, pair>>

----------------------------------------------------------------------------
(* JobContext queries *)

MaxNodes == 3          \* entries of node_hardware
MantissaBits == 3      \* significand bits of a float of the model

\* Python floats: binary floating point, every operation rounded to the
\* nearest representable value, ties to the even significand (IEEE 754).
\* A float of the model is  m * 2^e  with  2^(MantissaBits-1) <= m < 2^MantissaBits;
\* CPython's floats carry 53 bits and follow the same rule.
RECURSIVE Pow2(_)
Pow2(n) == IF n = 0 THEN 1 ELSE 2 * Pow2(n - 1)

Float(m, e) == [m |-> m, e |-> e]

\* Least k with n * 2^k >= 2^(MantissaBits-1)
RECURSIVE ScaleUp(_)
ScaleUp(n) == IF n >= Pow2(MantissaBits - 1) THEN 0 ELSE 1 + ScaleUp(2 * n)

\* Least s with n \div 2^s < 2^MantissaBits
RECURSIVE ShiftDown(_)
ShiftDown(n) == IF n < Pow2(MantissaBits) THEN 0 ELSE 1 + ShiftDown(n \div 2)

\* The float nearest to the positive number n * 2^e
RoundToNearestEven(n, e) ==
    LET k == ScaleUp(n)
        n1 == n * Pow2(k)
        s == ShiftDown(n1)
        q == n1 \div Pow2(s)
        r == n1 % Pow2(s)
        half == IF s = 0 THEN 0 ELSE Pow2(s - 1)
        up == s > 0 /\ (r > half \/ (r = half /\ q % 2 = 1))
        q1 == IF up THEN q + 1 ELSE q
    IN  IF q1 = Pow2(MantissaBits) THEN Float(Pow2(MantissaBits - 1), e - k + s + 1)
        ELSE Float(q1, e - k + s)

Min2(a, b) == IF a <= b THEN a ELSE b

\* a + b
FloatAdd(a, b) ==
    LET e == Min2(a.e, b.e)
    IN  RoundToNearestEven(a.m * Pow2(a.e - e) + b.m * Pow2(b.e - e), e)

\* a / n for an int n > 0: the quotient is taken with MantissaBits + 3 extra
\* bits and a sticky bit for the remainder, then rounded once
FloatDivInt(a, n) ==
    LET extra == MantissaBits + 3
        num == a.m * Pow2(extra)
        sticky == IF num % n = 0 THEN 0 ELSE 1
    IN  RoundToNearestEven(2 * (num \div n) + sticky, a.e - extra - 1)

\* a <= b
FloatLeq(a, b) ==
    LET e == Min2(a.e, b.e)
    IN  a.m * Pow2(a.e - e) <= b.m * Pow2(b.e - e)

\* sum(values): 0 + values[0] is exact, every further addition rounds
RECURSIVE FloatSum(_)
FloatSum(values) ==
    IF Len(values) = 1 THEN values[1]
    ELSE FloatAdd(FloatSum(SubSeq(values, 1, Len(values) - 1)), values[Len(values)])

\* min(values), max(values)
FloatMin(values) ==
    values[CHOOSE k \in 1..Len(values) : \A i \in 1..Len(values) : FloatLeq(values[k], values[i])]
FloatMax(values) ==
    values[CHOOSE k \in 1..Len(values) : \A i \in 1..Len(values) : FloatLeq(values[i], values[k])]

\* Benchmark values a node may report: the floats with exponent 0
BenchmarkValues == {Float(m, 0) : m \in Pow2(MantissaBits - 1)..(Pow2(MantissaBits) - 1)}

\* One value of node_hardware: the info dict of a node, without the
\* "benchmarks" key or with a benchmarks dict (a set of <<key, value>> items)
NodeInfo(has, items) == [has_benchmarks |-> has, benchmarks |-> items]
NodeInfos ==
    {NodeInfo(FALSE, {}), NodeInfo(TRUE, {})}
        \cup {NodeInfo(TRUE, {<<"bandwidth_mem", v>>}) : v \in BenchmarkValues}

BenchmarkKeys == {"bandwidth_mem", "peakflops"}
Aggregates == {"mean", "min", "max"}

NoneResult == [kind |-> "None"]
FloatResult(v) == [kind |-> "float", value |-> v]

\* get_benchmark, lines 141-152; node_hardware is the sequence of the dict's
\* values in insertion order
GetBenchmark(node_hardware, key, aggregate) ==
    LET reports(info) == info.has_benchmarks /\ key \in Keys(info.benchmarks)
        reporting == SelectSeq(node_hardware, reports)
        values == [k \in 1..Len(reporting) |-> Get(reporting[k].benchmarks, key)]
    IN  IF values = <<>> THEN NoneResult
        ELSE IF aggregate = "min" THEN FloatResult(FloatMin(values))
        ELSE IF aggregate = "max" THEN FloatResult(FloatMax(values))
        ELSE FloatResult(FloatDivInt(FloatSum(values), Len(values)))

NoJc == [node_hardware |-> <<>>, key |-> None, aggregate |-> None, result |-> NoResult]

\* ctx.get_benchmark(key, aggregate)
JcGetBenchmark ==
    /\ jc.key # None
    /\ jc.result = NoResult
    /\ jc' = [jc EXCEPT !.result = GetBenchmark(jc.node_hardware, jc.key, jc.aggregate)]
    /\ UNCHANGED <<xbatVars, csv, dm, pair>>

----------------------------------------------------------------------------
(* Two XBATDataSource instances sharing one token-cache path.  The file is   *)
(* its text, a sequence of symbols (the key, "=", the characters of the      *)
(* token, the newline), because two writers that interleave leave a mix of   *)
(* both texts behind.                                                        *)

MaxGrants == 2         \* token-grant requests of one instance

Instances == {1, 2}

\* Tokens the server grants, as character sequences of different lengths;
\* <<>> stands for no token (None or empty: the code tests `not token`)
NoToken == <<>>
PairTokens == {<<"a">>, <<"b", "b">>}

\* _save_token, line 254: f"ACCESS_TOKEN={self._access_token}\n"
TokenLine(tok) == <<"ACCESS_TOKEN", "=">> \o tok \o <<"\n">>

\* Position of the first symbol c in text, Len(text) + 1 when there is none
RECURSIVE IndexOf(_, _)
IndexOf(text, c) ==
    IF text = <<>> \/ Head(text) = c THEN 1 ELSE 1 + IndexOf(Tail(text), c)

\* line 246: key, _, value = line.partition("=")
PartitionKey(line) == SubSeq(line, 1, IndexOf(line, "=") - 1)
PartitionValue(line) == SubSeq(line, IndexOf(line, "=") + 1, Len(line))

\* _load_token, lines 244-249, on the text of the file: the value of the
\* first line whose key is ACCESS_TOKEN, the current token when there is none
RECURSIVE LoadTokenText(_, _)
LoadTokenText(text, current) ==
    IF text = <<>> THEN current
    ELSE LET n == IndexOf(text, "\n")
             line == SubSeq(text, 1, n - 1)
         IN  IF PartitionKey(line) = <<"ACCESS_TOKEN">> THEN PartitionValue(line)
             ELSE LoadTokenText(SubSeq(text, n + 1, Len(text)), current)

\* Variant: the writer appends to what the file holds
WriteAppend(text, data) == text \o data

\* The buffered text reaches the file when it is closed: written from
\* offset 0 over what the file holds by then
WriteAtStart(text, data) == data \o SubSeq(text, Len(data) + 1, Len(text))

NoPairFile == [exists |-> FALSE, text |-> <<>>]

NoPair ==
    [pc |-> <<"none", "none">>, token |-> <<NoToken, NoToken>>,
     built |-> <<FALSE, FALSE>>, grants |-> <<0, 0>>,
     file |-> NoPairFile, saved |-> <<NoToken, NoToken>>, last |-> 0]

\* __init__ of instance i, lines 91-96: _load_token, first branch of _validate_token
PairLoad(i) ==
    /\ pair.pc[i] = "new"
    /\ LET tok == IF pair.file.exists THEN LoadTokenText(pair.file.text, NoToken)
                  ELSE NoToken
       IN  pair' = [pair EXCEPT !.token[i] = tok,
                                !.pc[i] = IF tok = NoToken THEN "request_new_token"
                                          ELSE "validate_token"]
    /\ UNCHANGED <<xbatVars, csv, dm, jc>>

\* _validate_token of instance i, lines 267-275: accepted or not
PairValidate(i, accepted) ==
    /\ pair.pc[i] = "validate_token"
    /\ pair' = [pair EXCEPT !.pc[i] = IF accepted THEN "ready" ELSE "request_new_token",
                            !.built[i] = accepted]
    /\ UNCHANGED <<xbatVars, csv, dm, jc>>

\* fetch_job_data of instance i got a 401, line 130-132
PairUnauthorized(i) ==
    /\ pair.pc[i] = "ready"
    /\ pair.grants[i] < MaxGrants
    /\ pair' = [pair EXCEPT !.pc[i] = "request_new_token"]
    /\ UNCHANGED <<xbatVars, csv, dm, jc>>

\* _request_new_token of instance i, lines 284-301: the grant delivers tok,
\* or nothing and the call raises (in __init__: no instance)
PairRequestNewToken(i, tok) ==
    /\ pair.pc[i] = "request_new_token"
    /\ pair.grants[i] < MaxGrants
    /\ IF tok = NoToken
       THEN pair' = [pair EXCEPT !.grants[i] = @ + 1,
                                 !.pc[i] = IF pair.built[i] THEN "ready" ELSE "failed"]
       ELSE pair' = [pair EXCEPT !.grants[i] = @ + 1,
                                 !.token[i] = tok,
                                 !.pc[i] = "open"]
    /\ UNCHANGED <<xbatVars, csv, dm, jc>>

\* _save_token of instance i, line 253: open("w") creates or truncates the file
PairOpen(i) ==
    /\ pair.pc[i] = "open"
    /\ pair' = [pair EXCEPT !.file = [exists |-> TRUE, text |-> <<>>],
                            !.pc[i] = "write"]
    /\ UNCHANGED <<xbatVars, csv, dm, jc>>

\* _save_token of instance i, lines 254-256: the line is written as the
\* `with` block closes the file; chmod leaves the text alone
PairWrite(i) ==
    /\ pair.pc[i] = "write"
    /\ pair' = [pair EXCEPT !.file.text = WriteAtStart(@, TokenLine(pair.token[i])),
                            !.saved[i] = pair.token[i],
                            !.last = i,
                            !.built[i] = TRUE,
                            !.pc[i] = "ready"]
    /\ UNCHANGED <<xbatVars, csv, dm, jc>>

----------------------------------------------------------------------------
(* Specifications *)

XbatIdle ==
    /\ pc = "new"
    /\ caller = "__init__"
    /\ access_token = None
    /\ op = NoOp
    /\ reqlog = <<>>
    /\ response = NoResponse
    /\ df = NoDf
    /\ jobs_left = 0
    /\ job_entry = NoEntry
    /\ seen = NothingSeen
    /\ result = NoResult

\* The caller has taken the outcome of the call; its frame is gone.  After a
\* failed construction there is no instance.
Release ==
    /\ pc \in {"done", "failed"}
    /\ pc' = IF pc = "failed" THEN "new" ELSE "idle"
    /\ op' = NoOp
    /\ reqlog' = <<>>
    /\ response' = NoResponse
    /\ seen' = NothingSeen
    /\ result' = NoResult
    /\ access_token' = IF pc = "failed" THEN None ELSE access_token
    /\ UNCHANGED <<caller, token_file, df, jobs_left, job_entry, csv, config, dm, jc, pair>>

\* One XBATDataSource over a token-cache file in any initial condition
Init ==
    /\ XbatIdle
    /\ token_file \in InitialFiles
    /\ config = DefaultArgs
    /\ csv = NoCsv
    /\ dm = NoDm
    /\ jc = NoJc
    /\ pair = NoPair

Next ==
    \/ Construct
    \/ \E st \in Statuses \cup {NetError} : ValidateToken(st)
    \/ \E g \in GrantResponses : RequestNewToken(g)
    \/ SaveToken
    \/ \E j \in JobIds, r \in MeasureResponses : FetchJobData(j, r)
    \/ \E r \in MeasureResponses : RetryMeasure(r)
    \/ \E r \in ListResponses : ListJobs(r)
    \/ \E e \in JobEntries : ScanJobs(e)
    \/ \E r \in HwResponses : FetchNodeHardware(r)
    \/ Release

Spec == Init /\ [][Next]_vars

\* One CSVDataSource over any file, asked for any job
InitCsv ==
    /\ XbatIdle
    /\ token_file = NoFile
    /\ config = DefaultArgs
    /\ csv \in {[file |-> f, job_id |-> j, result |-> NoResult] : f \in CsvFiles, j \in CsvArgs}
    /\ dm = NoDm
    /\ jc = NoJc
    /\ pair = NoPair

NextCsv == CsvFetchJobData

SpecCsv == InitCsv /\ [][NextCsv]_vars

\* One DataManager over any table, queried with any list of metric specs
InitDm ==
    /\ XbatIdle
    /\ token_file = NoFile
    /\ config = DefaultArgs
    /\ csv = NoCsv
    /\ dm \in {[table |-> t, specs |-> q, call |-> "none", result |-> NoResult] :
                    t \in DmTables, q \in SeqsUpTo(MetricSpecs, MaxSpecs)}
    /\ jc = NoJc
    /\ pair = NoPair

NextDm == DmGetMetric \/ DmGetMetrics

SpecDm == InitDm /\ [][NextDm]_vars

\* One JobContext over any node_hardware, asked for any benchmark
InitJc ==
    /\ XbatIdle
    /\ token_file = NoFile
    /\ config = DefaultArgs
    /\ csv = NoCsv
    /\ dm = NoDm
    /\ pair = NoPair
    /\ jc \in {[node_hardware |-> h, key |-> k, aggregate |-> a, result |-> NoResult] :
                    h \in SeqsUpTo(NodeInfos, MaxNodes), k \in BenchmarkKeys, a \in Aggregates}

NextJc == JcGetBenchmark

SpecJc == InitJc /\ [][NextJc]_vars

\* One XBATDataSource constructed with any combination of the keyword
\* arguments, over a cache file that holds a token
ArgFiles ==
    {[exists |-> TRUE, lines |-> <<[key |-> "ACCESS_TOKEN", value |-> "tA"]>>]}

InitArgs ==
    /\ XbatIdle
    /\ token_file \in ArgFiles
    /\ config \in ArgSets
    /\ csv = NoCsv
    /\ dm = NoDm
    /\ jc = NoJc
    /\ pair = NoPair

SpecArgs == InitArgs /\ [][Next]_vars

\* Two instances constructed over the same path, absent or holding a token,
\* their steps interleaved in any order
InitPair ==
    /\ XbatIdle
    /\ token_file = NoFile
    /\ config = DefaultArgs
    /\ csv = NoCsv
    /\ dm = NoDm
    /\ jc = NoJc
    /\ pair \in {[NoPair EXCEPT !.pc = <<"new", "new">>, !.file = f] :
                    f \in {NoPairFile} \cup {[exists |-> TRUE, text |-> TokenLine(t)] : t \in PairTokens}}

NextPair ==
    \E i \in Instances :
        \/ PairLoad(i)
        \/ \E accepted \in BOOLEAN : PairValidate(i, accepted)
        \/ PairUnauthorized(i)
        \/ \E tok \in PairTokens \cup {NoToken} : PairRequestNewToken(i, tok)
        \/ PairOpen(i)
        \/ PairWrite(i)

SpecPair == InitPair /\ [][NextPair]_vars

----------------------------------------------------------------------------
(* Vocabulary of the properties *)

Finished == pc \in {"done", "failed"}
InitDone == Finished /\ op.name = "__init__"
FetchDone == pc = "done" /\ op.name = "fetch_job_data"

Calls(ep) == Count(reqlog, ep)

\* The token the cache file held when the call started, None if it held none
CachedToken == LoadToken(op.file0, None)

\* The token-grant response r delivered a usable access_token
GrantOk(r) == r.ep = "oauth_token" /\ r.status # NetError /\ ~Falsy(r.reply)

\* The token-grant response r was received and carried no access_token
GrantEmpty(r) == r.ep = "oauth_token" /\ r.status # NetError /\ Falsy(r.reply)

\* Every validation request of the call was answered with something else than 200
ValidationRejected ==
    \A k \in 1..Len(reqlog) : reqlog[k].ep = "current_user" => reqlog[k].status # 200

----------------------------------------------------------------------------
(* C1: a fetch_job_data call whose first measurement request got HTTP 401
   issued exactly one token-grant request, as its second request; when the
   grant delivered a token, the measurement request was re-issued exactly
   once, carrying the granted token; and when that retry got HTTP 200 with a
   parseable body, the call returned a DataManager (with that one grant). *)
C1_RefreshOnceAndRetry ==
    (FetchDone /\ reqlog[1].status = 401) =>
        /\ Calls("oauth_token") = 1
        /\ Len(reqlog) >= 2
        /\ reqlog[2].ep = "oauth_token"
        /\ GrantOk(reqlog[2]) =>
            /\ Calls("measurements") = 2
            /\ reqlog[3].ep = "measurements"
            /\ reqlog[3].token = reqlog[2].reply
            /\ (reqlog[3].status = 200 /\ response.body.parses) =>
                    /\ result.kind = "DataManager"
                    /\ Calls("oauth_token") = 1

C1_Witness ==
    /\ FetchDone
    /\ Len(reqlog) >= 3
    /\ reqlog[1].status = 401
    /\ reqlog[1].token = "tA"
    /\ reqlog[2].reply = "tB"
    /\ reqlog[3].token = "tB"
    /\ reqlog[3].status = 200
    /\ result.kind = "DataManager"

(* C2: a construction that found a token in the cache file and had it
   rejected by the server made exactly one validation request (with the
   cached token) followed by exactly one token-grant request; when the grant
   delivered a token, the cache file afterwards holds exactly that token, it
   is the in-memory token, and the instance exists. *)
C2_RejectedCacheIsReplaced ==
    (InitDone /\ ~Falsy(CachedToken) /\ ValidationRejected) =>
        /\ Calls("current_user") = 1
        /\ Calls("oauth_token") = 1
        /\ Len(reqlog) = 2
        /\ reqlog[1].ep = "current_user"
        /\ reqlog[1].token = CachedToken
        /\ reqlog[2].ep = "oauth_token"
        /\ GrantOk(reqlog[2]) =>
            /\ pc = "done"
            /\ result = Instance
            /\ access_token = reqlog[2].reply
            /\ token_file.exists
            /\ token_file.lines = <<[key |-> "ACCESS_TOKEN", value |-> reqlog[2].reply]>>

C2_Witness ==
    /\ InitDone
    /\ CachedToken = "tA"
    /\ Len(op.file0.lines) = 2
    /\ Len(reqlog) = 2
    /\ reqlog[1].status = 401
    /\ reqlog[2].reply = "tB"
    /\ result = Instance
    /\ token_file # op.file0

(* C3: within one fetch_job_data call at most two measurement requests and at
   most one token-grant request are issued; and when the measurement request
   retried after a refresh got HTTP 401 again, the call raised IOError (not
   ValueError) with no further request. *)
C3_SecondUnauthorizedIsIOError ==
    /\ op.name = "fetch_job_data" =>
            Calls("measurements") <= 2 /\ Calls("oauth_token") <= 1
    /\ (FetchDone /\ Len(reqlog) >= 3 /\ reqlog[3].ep = "measurements"
            /\ reqlog[3].status = 401) =>
        /\ result = Raised("IOError")
        /\ Len(reqlog) = 3
        /\ Calls("oauth_token") = 1

C3_Witness ==
    /\ FetchDone
    /\ Len(reqlog) = 3
    /\ reqlog[1].status = 401
    /\ reqlog[3].ep = "measurements"
    /\ reqlog[3].status = 401
    /\ response.body.parses
    /\ result = Raised("IOError")

(* C4: a construction whose token-grant response carried no access_token
   raised IOError, left no instance, made exactly one token-grant request
   and left the cache file as it was. *)
C4_ConstructionFailsFast ==
    (InitDone /\ \E k \in 1..Len(reqlog) : GrantEmpty(reqlog[k])) =>
        /\ pc = "failed"
        /\ result = Raised("IOError")
        /\ Calls("oauth_token") = 1
        /\ token_file = op.file0

C4_Witness ==
    /\ InitDone
    /\ pc = "failed"
    /\ CachedToken = "tA"
    /\ Len(reqlog) = 2
    /\ GrantEmpty(reqlog[2])
    /\ reqlog[2].reply = ""
    /\ token_file = op.file0
    /\ result = Raised("IOError")

(* C5: a construction issues a token-grant request iff the cache holds no
   token or its validation is not answered with HTTP 200.  Without a cached
   token: no validation request, exactly one grant request.  With a cached
   token: exactly one validation request; answered 200, no grant request,
   the cache file is not rewritten and the instance exists; answered
   otherwise (a network error included, which is not raised), exactly one
   grant request. *)
C5_GrantIffNoValidToken ==
    InitDone =>
        /\ Falsy(CachedToken) =>
            /\ Calls("current_user") = 0
            /\ Calls("oauth_token") = 1
        /\ ~Falsy(CachedToken) =>
            /\ Calls("current_user") = 1
            /\ reqlog[1].ep = "current_user"
            /\ reqlog[1].status = 200 =>
                /\ Calls("oauth_token") = 0
                /\ token_file = op.file0
                /\ result = Instance
                /\ access_token = CachedToken
            /\ reqlog[1].status # 200 =>
                /\ Calls("oauth_token") = 1
                /\ reqlog[2].ep = "oauth_token"

C5_Witness ==
    /\ InitDone
    /\ ~op.file0.exists
    /\ Calls("current_user") = 0
    /\ Calls("oauth_token") = 1
    /\ result = Instance

\* The measurement response the status mapping is applied to: the retried
\* one after a refresh, else the first one unless it asked for a refresh.
HasFinalResponse == Calls("measurements") = 2 \/ reqlog[1].status # 401
FinalStatus == IF Calls("measurements") = 2 THEN reqlog[3].status ELSE reqlog[1].status

\* The status the enrichment endpoint ep answered with in this call
StatusOf(ep) == (CHOOSE r \in {reqlog[k] : k \in 1..Len(reqlog)} : r.ep = ep).status

(* C6: a finished fetch_job_data call whose final measurement response had
   status 404 raised ValueError; any other status than 200 raised IOError;
   only a final status of 200 leads to a DataManager or to any enrichment
   request; and a first status other than 401 means no token-grant request
   and no retry. *)
C6_StatusMapping ==
    FetchDone =>
        /\ (HasFinalResponse /\ FinalStatus = 404) => result = Raised("ValueError")
        /\ (HasFinalResponse /\ FinalStatus \notin {200, 404, NetError}) =>
                result = Raised("IOError")
        /\ (result.kind = "DataManager" \/ Calls("jobs") > 0) =>
                HasFinalResponse /\ FinalStatus = 200
        /\ reqlog[1].status # 401 =>
                Calls("oauth_token") = 0 /\ Calls("measurements") = 1

C6_Witness ==
    /\ FetchDone
    /\ Len(reqlog) = 3
    /\ reqlog[1].status = 401
    /\ reqlog[3].status = 404
    /\ response.body.parses
    /\ result = Raised("ValueError")

(* C7: a finished fetch_job_data call whose final measurement response was
   HTTP 200 with a parseable body returned a DataManager, whatever the
   job-listing and node-hardware requests did. *)
C7_EnrichmentNeverFails ==
    (FetchDone /\ HasFinalResponse /\ FinalStatus = 200 /\ response.body.parses) =>
        result.kind = "DataManager"

C7_Witness ==
    /\ FetchDone
    /\ result.kind = "DataManager"
    /\ seen.match
    /\ Calls("nodes") = 1
    /\ StatusOf("nodes") = 200
    /\ ~seen.hw_valid
    /\ result.job_context.isNone

(* C8: when the listing showed the job's entry and the node-hardware request
   was answered with a non-200 status, or its response described none of the
   hashes the job references, the DataManager returned has no JobContext. *)
C8_HardwareFailureGivesNoContext ==
    (/\ FetchDone
     /\ result.kind = "DataManager"
     /\ seen.match
     /\ Calls("nodes") = 1
     /\ \/ StatusOf("nodes") # 200
        \/ seen.hw_valid /\ seen.hw_keys \cap seen.hashes = {})
    => result.job_context.isNone

(* C9: when the listing request was answered with a non-200 status, or the
   listing showed no entry of the requested job, fetch_job_data returned a
   DataManager without JobContext and the node-hardware endpoint was not
   called. *)
C9_NoEntryNoContext ==
    (FetchDone /\ Calls("jobs") = 1 /\ (StatusOf("jobs") # 200 \/ ~seen.match)) =>
        /\ result.kind = "DataManager"
        /\ result.job_context.isNone
        /\ Calls("nodes") = 0

C9_Witness ==
    /\ FetchDone
    /\ Calls("jobs") = 1
    /\ StatusOf("jobs") = 200
    /\ seen.others
    /\ ~seen.match
    /\ result.kind = "DataManager"
    /\ result.job_context.isNone

(* C10: CSVDataSource.fetch_job_data on a well-formed file in which no row's
   jobId equals the argument raises ValueError. *)
C10_NotFoundIsValueError ==
    (/\ csv.result # NoResult
     /\ csv.file.parses
     /\ \A k \in 1..Len(csv.file.rows) : PyStr(ReadCsv(csv.file.rows)[k].jobId) # csv.job_id)
    => csv.result = Raised("ValueError")

----------------------------------------------------------------------------
(* Vocabulary of the CSVDataSource properties *)

CsvDone == csv.result # NoResult

\* The rows of the file whose jobId cell, as written, is X
WrittenRowsOf(file, X) ==
    LET isX(r) == r.jobId = X
    IN  SelectSeq(file.rows, isX)

\* The returned rows with their jobId as a string
ReturnedRows(dmgr) ==
    [k \in 1..Len(dmgr.job_data) |->
        [dmgr.job_data[k] EXCEPT !.jobId = PyStr(@)]]

(* C11: CSVDataSource.fetch_job_data(X) on a well-formed file in which some
   row's jobId is X returns a DataManager whose table is exactly the rows of
   the file whose jobId is X, in file order, whose job_id is X and whose
   job_context is None. *)
C11_ExactlyTheRowsOfTheJob ==
    (CsvDone /\ csv.file.parses /\ WrittenRowsOf(csv.file, csv.job_id) # <<>>) =>
        /\ csv.result.kind = "DataManager"
        /\ ReturnedRows(csv.result) = WrittenRowsOf(csv.file, csv.job_id)
        /\ csv.result.job_id = csv.job_id
        /\ csv.result.job_context.isNone

(* C12 as stated: a request that equals a row's jobId up to letter case
   selects that row. *)
C12_CaseInsensitiveMatch ==
    (CsvDone /\ csv.file.parses) =>
        \A k \in 1..Len(csv.file.rows) :
            Lower(PyStr(ReadCsv(csv.file.rows)[k].jobId)) = Lower(csv.job_id) =>
                /\ csv.result.kind = "DataManager"
                /\ \E i \in 1..Len(csv.result.job_data) :
                        csv.result.job_data[i] = ReadCsv(csv.file.rows)[k]

(* C12: CSVDataSource.fetch_job_data matches the job identifier on the exact
   string value: every returned row's jobId, as a string, equals the argument,
   and a row whose jobId differs from the argument, be it only in letter
   case, is never returned. *)
C12_CaseSensitiveMatch ==
    (CsvDone /\ csv.file.parses) =>
        \A k \in 1..Len(csv.file.rows) :
            LET row == ReadCsv(csv.file.rows)[k]
                returned == /\ csv.result.kind = "DataManager"
                            /\ \E i \in 1..Len(csv.result.job_data) :
                                    csv.result.job_data[i] = row
            IN  returned <=> PyStr(row.jobId) = csv.job_id

C12_Witness ==
    /\ CsvDone
    /\ csv.job_id = "a"
    /\ Len(csv.file.rows) = 2
    /\ csv.file.rows[1].jobId = "A"
    /\ csv.file.rows[2].jobId = "a"
    /\ csv.result.kind = "DataManager"
    /\ Len(csv.result.job_data) = 1

----------------------------------------------------------------------------
(* Vocabulary of the constructor-argument properties *)

\* The combinations of arguments the configuration rules forbid
MetricWithoutGroup == ~Falsy(config.metric) /\ Falsy(config.group)
NodeLevelWithoutNode == config.level = "node" /\ Falsy(config.node)

\* The query string carries a parameter named key
HasParam(url, key) == \E k \in 1..Len(url) : url[k][1] = key
ParamOf(url, key) == (CHOOSE k \in 1..Len(url) : url[k][1] = key)

(* C13: a construction with a non-empty metric and an empty group, or with
   level "node" and an empty node, fails with ValueError as its first step:
   the token of the cache file has not been loaded and no request has been
   sent, whatever the file holds. *)
C13_InvalidArgumentsFailFirst ==
    (op.name = "__init__" /\ (MetricWithoutGroup \/ NodeLevelWithoutNode)) =>
        /\ pc = "failed"
        /\ result = Raised("ValueError")
        /\ access_token = None
        /\ reqlog = <<>>
        /\ token_file = op.file0

C13_Witness ==
    /\ pc = "failed"
    /\ NodeLevelWithoutNode
    /\ ~MetricWithoutGroup
    /\ LoadToken(token_file, None) = "tA"
    /\ access_token = None
    /\ result = Raised("ValueError")

(* C14: a construction with a non-empty node and a level other than "node"
   is rejected with ValueError, and no measurement URL carries a node
   parameter together with a level other than "node". *)
C14_NodeOnlyWithNodeLevel ==
    /\ (InitDone /\ ~Falsy(config.node) /\ config.level # "node") =>
            result = Raised("ValueError")
    /\ (op.name = "fetch_job_data" /\ HasParam(op.url, "node")) =>
            /\ HasParam(op.url, "level")
            /\ op.url[ParamOf(op.url, "level")][2] = "node"

----------------------------------------------------------------------------
(* Vocabulary of the DataManager properties *)

\* Row k of the table is identified by the spec: same group and metric, and
\* the same trace when the spec gives one
Identifies(spec, r) ==
    /\ r.group = spec.group
    /\ r.metric = spec.metric
    /\ spec.trace # Absent => r.trace = spec.trace[1]

MatchingRows(table, spec) == {k \in 1..Len(table) : Identifies(spec, table[k])}

Resolvable(table, spec) == MatchingRows(table, spec) # {}

Listed(table, triple) ==
    \E k \in 1..Len(ListAvailableMetrics(table)) : ListAvailableMetrics(table)[k] = triple

(* C15: get_metric(g, m, t) raises ValueError when no row of the table matches,
   in particular when t is given and (g, m, t) is not among
   list_available_metrics(); otherwise it returns the interval values of the
   matching row that comes first in the table. *)
C15_FirstMatchOrValueError ==
    dm.call = "get_metric" =>
        LET spec == dm.specs[1]
            rows == MatchingRows(dm.table, spec)
        IN  /\ rows = {} => dm.result = Raised("ValueError")
            /\ (spec.trace # Absent
                  /\ ~Listed(dm.table, <<spec.group, spec.metric, spec.trace[1]>>))
                    => dm.result = Raised("ValueError")
            /\ rows # {} =>
                    \E k \in rows :
                        /\ \A i \in rows : k <= i
                        /\ dm.result = Series(dm.table[k].vals)

C15_Witness ==
    /\ dm.call = "get_metric"
    /\ dm.specs[1].trace = Absent
    /\ Cardinality(MatchingRows(dm.table, dm.specs[1])) = 2
    /\ dm.table[1].vals # dm.table[2].vals
    /\ dm.result = Series(dm.table[1].vals)

(* C16: get_metrics(specs) never raises; its result has one entry for each
   distinct resolvable spec of the list and none for the others, and is empty
   when no spec resolves. *)
C16_OneEntryPerResolvableSpec ==
    dm.call = "get_metrics" =>
        LET resolvable == {dm.specs[k] : k \in {i \in 1..Len(dm.specs) :
                                                    Resolvable(dm.table, dm.specs[i])}}
        IN  /\ dm.result.kind = "DataFrame"
            /\ Len(dm.result.rows) = Cardinality(resolvable)
            /\ \A spec \in resolvable :
                    \E k \in 1..Len(dm.result.rows) :
                        dm.result.rows[k] =
                            <<MetricKey(spec.group, spec.metric, spec.trace),
                              GetMetric(dm.table, spec.group, spec.metric, spec.trace).vals>>

----------------------------------------------------------------------------
(* Vocabulary of the JobContext properties *)

\* fetch_job_data returned a DataManager that carries a JobContext
WithContext == FetchDone /\ result.kind = "DataManager" /\ ~result.job_context.isNone

\* Keys of the raw hardware mapping that _fetch_node_hardware handed to from_xbat
RawKeys == IF StatusOf("nodes") = 200 THEN seen.hw_keys ELSE {}

(* C17: a DataManager returned by fetch_job_data with a JobContext has the
   job_id of its JobContext, and every row of its table carries that job
   identifier. *)
C17_ContextAndTableAgree ==
    WithContext =>
        /\ result.job_context.job_id = result.job_id
        /\ \A k \in 1..Len(result.job_data) :
                PyStr(result.job_data[k].jobId) = result.job_context.job_id

(* C18: the keys of node_hardware of a JobContext built by from_xbat are
   exactly the non-empty hashes of the entry's hostname -> hash mapping that
   are keys of the raw hardware mapping: each of them is a hash of
   job_metadata["nodes"] and a key of the raw mapping, hosts that share a hash
   give one entry, and a referenced hash the raw mapping lacks is left out
   while the JobContext is still built. *)
C18_HardwareKeysReferencedAndKnown ==
    WithContext =>
        LET ctx == result.job_context
        IN  /\ Keys(ctx.node_hardware) \subseteq Values(ctx.nodes)
            /\ Keys(ctx.node_hardware) \subseteq RawKeys
            /\ Keys(ctx.node_hardware) = {h \in Values(ctx.nodes) : ~Falsy(h)} \cap RawKeys
            /\ Cardinality(ctx.node_hardware) = Cardinality(Keys(ctx.node_hardware))

C18_Witness ==
    /\ WithContext
    /\ Cardinality(Keys(result.job_context.nodes)) = 2
    /\ Values(result.job_context.nodes) = {"h1"}
    /\ RawKeys = {"h1", "h2"}
    /\ Keys(result.job_context.node_hardware) = {"h1"}
    /\ Cardinality(result.job_context.node_hardware) = 1

----------------------------------------------------------------------------
(* Vocabulary of the get_benchmark properties *)

\* The values the nodes report for the key, in node order
Reported ==
    LET reports(info) == info.has_benchmarks /\ jc.key \in Keys(info.benchmarks)
        reporting == SelectSeq(jc.node_hardware, reports)
    IN  [k \in 1..Len(reporting) |-> Get(reporting[k].benchmarks, jc.key)]

(* C19: get_benchmark returns None, for every aggregate, when no node
   reports the key; when some node reports it the mean lies between the
   smallest and the largest reported value. *)
C19_MeanBetweenMinAndMax ==
    jc.result # NoResult =>
        /\ Reported = <<>> => jc.result = NoneResult
        /\ Reported # <<>> => jc.result.kind = "float"
        /\ (Reported # <<>> /\ jc.aggregate = "mean") =>
                /\ \E k \in 1..Len(Reported) : FloatLeq(Reported[k], jc.result.value)
                /\ \E k \in 1..Len(Reported) : FloatLeq(jc.result.value, Reported[k])

----------------------------------------------------------------------------
(* Vocabulary of the request-order properties *)

\* The token in force for the rest of the call once request k has been sent:
\* the one the last delivered grant before k set, else the one the call
\* started with
CurrentTokenAt(k) ==
    LET grants == {g \in 1..(k - 1) : GrantOk(reqlog[g])}
    IN  IF grants = {} THEN op.token0
        ELSE reqlog[CHOOSE g \in grants : \A h \in grants : h <= g].reply

(* C20: within one fetch_job_data call the job-listing request directly
   follows a measurement request answered 200 whose body parsed, and the call
   does not raise afterwards; the node-hardware request directly follows a
   listing answered 200 that showed an entry of the job with a non-empty
   hash; both carry the token in force after any refresh of the call. *)
C20_EnrichmentOrder ==
    op.name = "fetch_job_data" =>
        \A k \in 1..Len(reqlog) :
            /\ reqlog[k].ep = "jobs" =>
                    /\ k > 1
                    /\ reqlog[k - 1].ep = "measurements"
                    /\ reqlog[k - 1].status = 200
                    /\ response.status = 200
                    /\ response.body.parses
                    /\ result.kind # "raised"
                    /\ reqlog[k].token = CurrentTokenAt(k)
                    /\ reqlog[k].token = access_token
            /\ reqlog[k].ep = "nodes" =>
                    /\ k > 1
                    /\ reqlog[k - 1].ep = "jobs"
                    /\ reqlog[k - 1].status = 200
                    /\ seen.match
                    /\ seen.hashes # {}
                    /\ result.kind # "raised"
                    /\ reqlog[k].token = CurrentTokenAt(k)
                    /\ reqlog[k].token = access_token

C20_Witness ==
    /\ FetchDone
    /\ Len(reqlog) = 5
    /\ reqlog[1].status = 401
    /\ GrantOk(reqlog[2])
    /\ reqlog[2].reply # op.token0
    /\ reqlog[4].ep = "jobs"
    /\ reqlog[5].ep = "nodes"
    /\ reqlog[5].token = reqlog[2].reply
    /\ result.kind = "DataManager"
    /\ ~result.job_context.isNone

----------------------------------------------------------------------------
(* Vocabulary of the token-cache properties *)

\* The instance exists and no call is running: construction succeeded, or a
\* fetch_job_data call has returned or raised
AtRest == pc = "idle" \/ (pc = "done" /\ (op.name = "fetch_job_data" \/ result = Instance))

\* The value of the first ACCESS_TOKEN line of the cache file, None without one
StoredToken ==
    IF token_file.exists THEN FirstAccessToken(token_file.lines, None) ELSE None

(* C21: whenever the instance is at rest (after a successful construction,
   after a fetch_job_data call returned or raised) its _access_token is
   non-empty and the cache file exists and stores that token. *)
C21_CacheHoldsTheTokenInUse ==
    AtRest =>
        /\ ~Falsy(access_token)
        /\ token_file.exists
        /\ StoredToken = access_token

C21_Witness ==
    /\ FetchDone
    /\ result.kind = "raised"
    /\ reqlog[1].status = 401
    /\ Len(reqlog) = 3
    /\ GrantOk(reqlog[2])
    /\ op.file0.exists
    /\ access_token # op.token0
    /\ access_token = reqlog[2].reply
    /\ StoredToken = access_token

(* C22: once the token grant requested after a 401 answered without an
   access_token, the fetch_job_data call is over: it raised IOError, it sent
   no further request (no second measurement request, no enrichment request)
   and _access_token and the cache file are as they were when it started. *)
C22_FailedRefreshChangesNothing ==
    (/\ op.name = "fetch_job_data"
     /\ Len(reqlog) >= 2
     /\ reqlog[1].status = 401
     /\ GrantEmpty(reqlog[2])) =>
        /\ pc = "done"
        /\ result = Raised("IOError")
        /\ Len(reqlog) = 2
        /\ Calls("measurements") = 1
        /\ Calls("jobs") = 0
        /\ Calls("nodes") = 0
        /\ access_token = op.token0
        /\ token_file = op.file0

C22_Witness ==
    /\ FetchDone
    /\ Len(reqlog) = 2
    /\ reqlog[1].status = 401
    /\ reqlog[2].ep = "oauth_token"
    /\ reqlog[2].status = 200
    /\ reqlog[2].reply = None
    /\ Len(op.file0.lines) = 2
    /\ result = Raised("IOError")
    /\ token_file = op.file0

----------------------------------------------------------------------------
(* Vocabulary of the shared-cache properties *)

\* Neither instance is inside a construction or a token refresh
BothFinished == \A i \in Instances : pair.pc[i] \in {"ready", "failed"}

\* The token a loader would read from the shared file now
SharedStoredToken == LoadTokenText(pair.file.text, NoToken)

(* C23: when two instances over one cache path have both finished and at
   least one of them saved a token, the file stores the token of the
   instance that wrote last, whatever the interleaving of the opens and
   writes was, and every instance that saved still holds the token it saved
   itself (so its token may differ from the one in the file). *)
C23_LastWriteWins ==
    (BothFinished /\ pair.last # 0) =>
        /\ pair.file.exists
        /\ SharedStoredToken = pair.saved[pair.last]
        /\ \A i \in Instances :
                pair.saved[i] # NoToken => pair.token[i] = pair.saved[i]

C23_Witness ==
    /\ BothFinished
    /\ pair.last = 1
    /\ pair.saved = <<(<<"a">>), (<<"b", "b">>)>>
    /\ pair.token[2] = <<"b", "b">>
    /\ SharedStoredToken = <<"a">>
    /\ pair.token[2] # SharedStoredToken
    /\ pair.file.text # TokenLine(<<"a">>)

====
